---- MODULE Spec2Model ----
(***************************************************************************)
(* Refresh pipeline of the stock dashboard: the /api/refresh handler, the  *)
(* background cycle fetch_and_update_data (src/app.py), the stand-alone    *)
(* fetcher fetch_all (src/fetch_sp500.py) and the snapshot file they share.*)
(***************************************************************************)
EXTENDS Integers, Sequences, FiniteSets, TLC

\* ------------------------------------------------------------------ bounds
MaxListing == 2      \* longest upstream listing explored
MaxThreads == 2      \* cycle threads alive at once
NumHandlers == 1     \* concurrent /api/refresh request handlers
MaxDay == 1          \* calendar days explored: 0..MaxDay

\* -------------------------------------------------------- program constants
OhlcvBatchSize == 50
FundBatchSize == 20

\* the two characters of symbol.replace('.', '-'), as code points
Dash == 45
Dot == 46

\* upstream tickers, as code points: "A", "B.B", "B-B"
UpstreamTickers == { <<65>>, <<66, Dot, 66>>, <<66, Dash, 66>> }

Threads == 1..MaxThreads
Handlers == 1..NumHandlers

Min(a, b) == IF a < b THEN a ELSE b

Range(s) == { s[k] : k \in 1..Len(s) }

\* all sequences over S of length 0..n
SeqsUpTo(S, n) == UNION { [1..k -> S] : k \in 0..n }

\* the listings the upstream page may carry (rows after the header)
Listings == SeqsUpTo(UpstreamTickers, MaxListing)

\* symbol.replace('.', '-')
NormalizeSymbol(symbol) ==
    [k \in 1..Len(symbol) |-> IF symbol[k] = Dot THEN Dash ELSE symbol[k]]

\* the body of get_sp500_tickers on a page that parsed: one ticker per row
ScrapeTickers(listing) == [k \in 1..Len(listing) |-> NormalizeSymbol(listing[k])]

Symbols == { NormalizeSymbol(u) : u \in UpstreamTickers }

\* tickers[i:i+batch_size] (i is 0-based)
Batch(seq, i, size) == SubSeq(seq, i + 1, Min(i + size, Len(seq)))

\* str < str of Python: lexicographic by code point
RECURSIVE StrLess(_, _)
StrLess(a, b) ==
    IF b = <<>> THEN FALSE
    ELSE IF a = <<>> THEN TRUE
    ELSE IF a[1] # b[1] THEN a[1] < b[1]
    ELSE StrLess(Tail(a), Tail(b))

\* history lengths upstream may hold for a symbol
HistoryLens == {50, 200}

\* ------------------------------------------------------------ time stamps
\* a LastUpdated string, as its space-separated tokens
AppStamp(day) == <<day, "HMS">>       \* strftime("%Y-%m-%d %H:%M:%S")
IsoStamp(day) == <<day>>              \* date.today().isoformat()

\* last_updated.split(' ')[0]
LastDate(last_updated) == last_updated[1]

\* ------------------------------------------------- values of a data frame
\* A cell of a row handed to calculate_score is None, a float NaN (a missing
\* value of a numeric column) or a number.  None is the empty tuple, a
\* number v the 1-tuple <<v>> and NaN a 2-tuple, so that NaN equals no
\* number.  Market caps are in units of 1e9, everything else in the units of
\* the source.
None == <<>>
NaN == <<0, 0>>
Num(v) == <<v>>
IsNum(x) == Len(x) = 1

\* bool(x): None and 0 are false, NaN and the other numbers are true
Truthy(x) == x # None /\ x # Num(0)

\* x or 0
OrZero(x) == IF Truthy(x) THEN x ELSE Num(0)

\* a < b, a > b, a >= b on floats: False as soon as one side is NaN
Lt(a, b) == IsNum(a) /\ IsNum(b) /\ a[1] < b[1]
Gt(a, b) == Lt(b, a)
Ge(a, b) == IsNum(a) /\ IsNum(b) /\ a[1] >= b[1]

\* round(a / b): the quotient to the nearest integer
RoundDiv(a, b) == (2 * a + b) \div (2 * b)

\* lines 515-518: round(((ma50 / ma200) - 1) * 100, 2), in hundredths of a
\* percent, or None without a 200-day average
TrendStrength(ma50, ma200) ==
    IF Truthy(ma200)
    THEN IF IsNum(ma50) /\ IsNum(ma200)
         THEN Num(RoundDiv(ma50[1] * 10000, ma200[1]) - 10000)
         ELSE NaN
    ELSE None

\* dict.get(key)
Get(table, key) == IF key \in DOMAIN table THEN table[key] ELSE None

\* ---------------------------------------------------------------- state
VARIABLES
    listing,          \* the symbols scraped from the upstream constituents table
    closes,           \* per symbol, the number of daily closes upstream has
    quote,            \* per symbol, what upstream answers about it
    today,            \* the calendar day of the wall clock
    lastResponse,     \* the last answer /api/refresh gave today
    refresh_status,   \* the global dict of app.py
    file,             \* records last written into sp500_data.json
    fileState,        \* "absent", "complete" or "torn" (truncated / invalid JSON)
    req,              \* the /api/refresh handlers
    cycle,            \* the fetch_and_update_data threads
    script,           \* the fetch_all run of fetch_sp500.py
    refresh_lock,     \* holder of the threading.Lock of app.py, 0 when free
    statusRead,       \* the body of the last answer of /api/refresh_status
    scored_row,       \* a row handed to calculate_score
    medians,          \* the two sector tables handed to calculate_score
    result,           \* what calculate_score returned for them, and when
    sector_data,      \* the last answer of /api/sector_data
    universe          \* the upstream constituents table and the last list
                      \* a get_sp500_tickers made of it

env == <<listing, closes, quote>>

\* what the refresh machinery never touches
calc == <<statusRead, scored_row, medians, result, sector_data, universe>>

vars == <<listing, closes, quote, today, lastResponse, refresh_status, file, fileState, req, cycle, script,
          refresh_lock, statusRead, scored_row, medians, result, sector_data, universe>>

IdleStatus ==
    [is_running |-> FALSE, current |-> 0, total |-> 0, status |-> "idle"]

NoCycle ==
    [pc |-> "none", tickers |-> <<>>, i |-> 0, ma_rows |-> <<>>,
     info_rows |-> <<>>, all_data |-> <<>>,
     fresh |-> {}, fetched |-> {}, failed |-> {},
     attempts |-> [s \in Symbols |-> 0], error |-> ""]

NoResponse == "none"

\* no status was read yet
NoStatus == [is_running |-> FALSE, current |-> 0, total |-> 0, status |-> "none"]

IdleReq == [pc |-> "idle", force |-> FALSE]

NoScript == [pc |-> "none", tickers |-> <<>>, idx |-> 0, all_data |-> <<>>, failed |-> {}]

\* ------------------------------------------------- rows to score
\* the sector of every row explored
Tech == "Technology"

\* the sector of a symbol whose info has none, or whose lookup raised
NoSector == "N/A"

\* a row of final_df, as calculate_score reads it
RowOf(price, ma200, rets, ret1d, vc1, vc5, volume, mcap, pe, vol6m, edate) ==
    [Price |-> price, MA50 |-> Num(48), MA200 |-> ma200,
     TrendStrength |-> TrendStrength(Num(48), ma200),
     Ret1D |-> ret1d, Ret5D |-> rets[1], Ret1M |-> rets[2], Ret6M |-> rets[3],
     Vol6M |-> vol6m, Volume |-> volume, VolChange1D |-> vc1, VolChange5D |-> vc5,
     MarketCap |-> mcap, PE |-> pe, Sector |-> Tech, EarningsDate |-> edate]

Prices == { Num(5), Num(45), Num(50) }
Ma200s == { Num(40), Num(60) }
ReturnTriples == { <<Num(2), Num(5), Num(10)>>, <<Num(-2), Num(5), Num(10)>>,
                   <<Num(-2), Num(-5), Num(10)>> }
DayReturns == { Num(-1), Num(1) }
VolChanges1D == { None, Num(-100), Num(0), Num(100) }
VolChanges5D == { Num(0), Num(20) }
Volumes == { Num(0), Num(1000000) }
MarketCaps == { None, NaN, Num(1), Num(50) }
PERatios == { None, Num(10), Num(30) }
Volatilities == { Num(0), Num(10), Num(40) }
EarningsDates == { None, Num(-2), Num(8) }

Rows ==
    { RowOf(price, ma200, rets, ret1d, vc1, vc5, volume, mcap, pe, vol6m, edate) :
        price \in Prices, ma200 \in Ma200s, rets \in ReturnTriples,
        ret1d \in DayReturns, vc1 \in VolChanges1D, vc5 \in VolChanges5D,
        volume \in Volumes, mcap \in MarketCaps, pe \in PERatios,
        vol6m \in Volatilities, edate \in EarningsDates }

\* the median tables: the sector known to both with median 20, or to none
MedianTables ==
    { [pe |-> [sector \in sectors |-> Num(20)],
       vol |-> [sector \in sectors |-> Num(20)]] : sectors \in {{}, {Tech}} }

PlainRow ==
    RowOf(Num(50), Num(40), <<Num(2), Num(5), Num(10)>>, Num(1), Num(100), Num(20),
          Num(1000000), Num(50), Num(10), Num(10), None)

\* a row whose last session traded next to nothing: its 1-day volume change
\* rounds to -100
HaltedRow ==
    RowOf(Num(50), Num(40), <<Num(2), Num(5), Num(10)>>, Num(1), Num(-100), Num(20),
          Num(1000000), Num(50), Num(30), Num(10), None)

\* a row whose closes did not move for 200 sessions: both averages are the
\* same (whole dollars, which round(x, 2) leaves as they are)
FlatRow ==
    RowOf(Num(50), Num(48), <<Num(2), Num(5), Num(10)>>, Num(1), Num(100), Num(20),
          Num(1000000), Num(50), Num(10), Num(10), None)

\* what upstream has on a symbol: the cells its history and its info give,
\* and whether the info lookup raises
PlainQuote == [row |-> PlainRow, info_raises |-> FALSE]

Quotes == { PlainQuote,
            [row |-> HaltedRow, info_raises |-> FALSE],
            [row |-> PlainRow, info_raises |-> TRUE] }

FlatQuote == [row |-> FlatRow, info_raises |-> FALSE]

PlainMedians == [pe |-> [sector \in {Tech} |-> Num(20)],
                 vol |-> [sector \in {Tech} |-> Num(20)]]

\* /api/sector_data was not called
NoSectorData == [asked |-> FALSE, sectors |-> <<>>]

\* get_sp500_tickers was not called, on a table without rows
NoUniverse == [page |-> <<>>, by |-> "none", tickers |-> <<>>]

\* calculate_score was not called
NoResult == [points |-> 0, decision |-> "none", day |-> 0]

\* the application just started, nothing saved yet
AtRest ==
    /\ today = 0
    /\ lastResponse = NoResponse
    /\ refresh_status = IdleStatus
    /\ file = <<>>
    /\ fileState = "absent"
    /\ req = [r \in Handlers |-> IdleReq]
    /\ cycle = [t \in Threads |-> NoCycle]
    /\ script = NoScript
    /\ refresh_lock = 0
    /\ statusRead = NoStatus
    /\ result = NoResult
    /\ sector_data = NoSectorData
    /\ universe = NoUniverse

Init ==
    /\ listing \in { ScrapeTickers(page) : page \in Listings }
    /\ closes \in [Symbols -> HistoryLens]
    /\ \A s \in Symbols \ Range(listing) : closes[s] = 50
    /\ quote = [s \in Symbols |-> PlainQuote]
    /\ scored_row = PlainRow
    /\ medians = PlainMedians
    /\ AtRest

\* ------------------------------------------------------------ the clock
Tick ==
    /\ today < MaxDay
    /\ today' = today + 1
    /\ lastResponse' = NoResponse
    /\ UNCHANGED <<env, calc, refresh_lock, refresh_status, file, fileState, req, cycle, script>>

\* ------------------------------------------------------- snapshot store
\* load_sp500_data: [] when the file is missing or does not parse
load_sp500_data == IF fileState = "complete" THEN file ELSE <<>>

\* open(DATA_FILE, 'w'): the file is truncated at once
OpenForWrite ==
    /\ file' = <<>>
    /\ fileState' = "torn"

\* json.dump + close.  Each writer writes from offset 0 of its own handle:
\* on a file still empty since the truncation the result is the writer's
\* data; over data another writer dumped meanwhile the bytes overlay, which
\* leaves the writer's data or invalid JSON.
DumpAndClose(data) ==
    IF fileState = "complete"
    THEN \/ file' = data /\ fileState' = "complete"
         \/ file' = <<>> /\ fileState' = "torn"
    ELSE file' = data /\ fileState' = "complete"


\* ------------------------------------- the scoring engine (calculate_score)
\* 1 + (x or 0) / 100 >= k / 100
RatioAtLeast(x, k) == Ge(OrZero(x), Num(k - 100))

\* line 596 raises ZeroDivisionError: the volume is there, the 1-day change
\* is not None and 1 + change / 100 is 0.0
ScoringRaises(row) ==
    /\ Truthy(row.Volume)
    /\ row.VolChange1D # None
    /\ OrZero(row.VolChange1D) = Num(-100)

\* line 596 followed by "avg_vol_20d < 500000" of line 597, without the
\* division: Volume / d < limit with d = (100 + change) / 100
AvgVolBelow(row, limit) ==
    IF Truthy(row.Volume) /\ row.VolChange1D # None
    THEN LET c == OrZero(row.VolChange1D)
         IN /\ IsNum(row.Volume) /\ IsNum(c)
            /\ IF 100 + c[1] > 0
               THEN row.Volume[1] * 100 < limit * (100 + c[1])
               ELSE row.Volume[1] * 100 > limit * (100 + c[1])
    ELSE 0 < limit

\* (edate - today).days of a parsed EarningsDate; a date string is <<d>>,
\* and always true as a condition
DaysTo(edate, day) == edate[1] - day

\* lines 623-628 and 633-638: edate_dist > 7, with 999 for no date
EarningsFarAway(row, day) ==
    (IF row.EarningsDate # None THEN DaysTo(row.EarningsDate, day) ELSE 999) > 7

\* the points with 10 instead of 5 for a large market cap
FinalPointsTenForCap(row, sector_pe_medians, sector_vol_medians) ==
    LET price == OrZero(row.Price)
        ma50 == OrZero(row.MA50)
        ma200 == OrZero(row.MA200)
        trend_strength == OrZero(row.TrendStrength)
        ret5d == OrZero(row.Ret5D)
        ret1m == OrZero(row.Ret1M)
        ret6m == OrZero(row.Ret6M)
        ret1d == OrZero(row.Ret1D)
        mcap == OrZero(row.MarketCap)
        pe == row.PE
        median_pe == Get(sector_pe_medians, row.Sector)
        vol6m == row.Vol6M
        median_vol == Get(sector_vol_medians, row.Sector)
        trend == IF Ge(price, ma200)
                 THEN (IF Gt(price, ma50) THEN 8 ELSE 0)
                      + (IF Gt(ma50, ma200) THEN 8 ELSE 0)
                      + (IF Gt(price, ma200) THEN 8 ELSE 0)
                      + (IF Gt(trend_strength, Num(0)) THEN 11 ELSE 0)
                 ELSE 0
        momentum == (IF Gt(ret6m, Num(0)) THEN 5 ELSE 0)
                    + (IF Gt(ret1m, Num(0)) THEN 5 ELSE 0)
                    + (IF Gt(ret5d, Num(0)) THEN 5 ELSE 0)
                    + (IF Gt(ret6m, ret1m) /\ Gt(ret1m, ret5d) THEN 10 ELSE 0)
                    - (IF Lt(ret5d, Num(0)) /\ Gt(ret1m, Num(0)) THEN 5 ELSE 0)
        volume == (IF RatioAtLeast(row.VolChange5D, 120) THEN 5 ELSE 0)
                  + (IF RatioAtLeast(row.VolChange1D, 150) THEN 10 ELSE 0)
                  + (IF Gt(ret1d, Num(0)) /\ Gt(OrZero(row.VolChange1D), Num(0))
                     THEN 5 ELSE 0)
                  - (IF Lt(ret1d, Num(0)) /\ RatioAtLeast(row.VolChange1D, 200)
                     THEN 10 ELSE 0)
        risk == (IF Gt(mcap, Num(10)) THEN 10 ELSE 0)
                + (IF Truthy(pe) /\ Truthy(median_pe)
                   THEN (IF Lt(pe, median_pe) THEN 5
                         ELSE IF Gt(pe, median_pe)
                                 /\ (Gt(ret1m, Num(0)) \/ Gt(ret6m, Num(0)))
                              THEN 3 ELSE 0)
                   ELSE 0)
                + (IF Truthy(vol6m) /\ Truthy(median_vol) /\ Lt(vol6m, median_vol)
                   THEN 7 ELSE 0)
        score == trend + momentum + volume + risk
    IN IF score > 0 THEN score ELSE 0

\* lines 529-591: the points
FinalPoints(row, sector_pe_medians, sector_vol_medians) ==
    LET price == OrZero(row.Price)
        ma50 == OrZero(row.MA50)
        ma200 == OrZero(row.MA200)
        trend_strength == OrZero(row.TrendStrength)
        ret5d == OrZero(row.Ret5D)
        ret1m == OrZero(row.Ret1M)
        ret6m == OrZero(row.Ret6M)
        ret1d == OrZero(row.Ret1D)
        mcap == OrZero(row.MarketCap)
        pe == row.PE
        median_pe == Get(sector_pe_medians, row.Sector)
        vol6m == row.Vol6M
        median_vol == Get(sector_vol_medians, row.Sector)
        trend == IF Ge(price, ma200)
                 THEN (IF Gt(price, ma50) THEN 8 ELSE 0)
                      + (IF Gt(ma50, ma200) THEN 8 ELSE 0)
                      + (IF Gt(price, ma200) THEN 8 ELSE 0)
                      + (IF Gt(trend_strength, Num(0)) THEN 11 ELSE 0)
                 ELSE 0
        momentum == (IF Gt(ret6m, Num(0)) THEN 5 ELSE 0)
                    + (IF Gt(ret1m, Num(0)) THEN 5 ELSE 0)
                    + (IF Gt(ret5d, Num(0)) THEN 5 ELSE 0)
                    + (IF Gt(ret6m, ret1m) /\ Gt(ret1m, ret5d) THEN 10 ELSE 0)
                    - (IF Lt(ret5d, Num(0)) /\ Gt(ret1m, Num(0)) THEN 5 ELSE 0)
        volume == (IF RatioAtLeast(row.VolChange5D, 120) THEN 5 ELSE 0)
                  + (IF RatioAtLeast(row.VolChange1D, 150) THEN 10 ELSE 0)
                  + (IF Gt(ret1d, Num(0)) /\ Gt(OrZero(row.VolChange1D), Num(0))
                     THEN 5 ELSE 0)
                  - (IF Lt(ret1d, Num(0)) /\ RatioAtLeast(row.VolChange1D, 200)
                     THEN 10 ELSE 0)
        risk == (IF Gt(mcap, Num(10)) THEN 5 ELSE 0)
                + (IF Truthy(pe) /\ Truthy(median_pe)
                   THEN (IF Lt(pe, median_pe) THEN 5
                         ELSE IF Gt(pe, median_pe)
                                 /\ (Gt(ret1m, Num(0)) \/ Gt(ret6m, Num(0)))
                              THEN 3 ELSE 0)
                   ELSE 0)
                + (IF Truthy(vol6m) /\ Truthy(median_vol) /\ Lt(vol6m, median_vol)
                   THEN 7 ELSE 0)
        score == trend + momentum + volume + risk
    IN IF score > 0 THEN score ELSE 0

\* line 597
HardReject(row) ==
    \/ Lt(OrZero(row.MarketCap), Num(2))
    \/ AvgVolBelow(row, 500000)
    \/ Lt(OrZero(row.Price), Num(10))

\* line 602
HardSell(row, final_points) ==
    \/ Lt(OrZero(row.Price), OrZero(row.MA200))
    \/ Lt(OrZero(row.Ret1D), Num(0)) /\ RatioAtLeast(row.VolChange1D, 200)
    \/ Lt(OrZero(row.TrendStrength), Num(0))
    \/ final_points < 45

\* lines 606-614
EarningsFreeze(row, day) ==
    /\ row.EarningsDate # None
    /\ -1 <= DaysTo(row.EarningsDate, day)
    /\ DaysTo(row.EarningsDate, day) <= 7

\* line 618
Reduce(row, final_points) ==
    \/ final_points < 65
    \/ Lt(OrZero(row.Ret5D), Num(0)) /\ Lt(OrZero(row.Ret1M), Num(0))

\* the strong buy that does not look at the 5-day volume
StrongBuyAnyVolume(row, final_points, day) ==
    /\ final_points >= 80
    /\ Gt(OrZero(row.Price), OrZero(row.MA50))
    /\ Gt(OrZero(row.Price), OrZero(row.MA200))
    /\ Gt(OrZero(row.Ret6M), Num(0))
    /\ EarningsFarAway(row, day)

\* lines 622-629
StrongBuy(row, final_points, day) ==
    /\ final_points >= 80
    /\ Gt(OrZero(row.Price), OrZero(row.MA50))
    /\ Gt(OrZero(row.Price), OrZero(row.MA200))
    /\ RatioAtLeast(row.VolChange5D, 120)
    /\ Gt(OrZero(row.Ret6M), Num(0))
    /\ EarningsFarAway(row, day)

\* lines 632-639
BuySmall(row, final_points, day) ==
    /\ 70 <= final_points /\ final_points <= 79
    /\ Gt(OrZero(row.Price), OrZero(row.MA50))
    /\ Gt(OrZero(row.Price), OrZero(row.MA200))
    /\ Gt(OrZero(row.Ret6M), Num(0))
    /\ EarningsFarAway(row, day)

\* the decision of the first gate that matches, in the order of the gates
FirstGate(row, final_points, day) ==
    IF HardReject(row) THEN "Rejected"
    ELSE IF HardSell(row, final_points) THEN "Sell"
    ELSE IF EarningsFreeze(row, day) THEN "Hold"
    ELSE IF Reduce(row, final_points) THEN "Reduce"
    ELSE IF StrongBuy(row, final_points, day) THEN "Strong Buy"
    ELSE IF BuySmall(row, final_points, day) THEN "Buy (Small)"
    ELSE "Hold"

\* the scoring that freezes every decision while a refresh is running
calculate_score_running(row, sector_pe_medians, sector_vol_medians, day) ==
    LET final_points == FinalPoints(row, sector_pe_medians, sector_vol_medians)
    IN IF refresh_status.is_running THEN <<final_points, "Hold">>
       ELSE IF ScoringRaises(row) THEN <<0, "ERROR">>
       ELSE IF HardReject(row) THEN <<final_points, "Rejected">>
       ELSE IF HardSell(row, final_points) THEN <<final_points, "Sell">>
       ELSE IF EarningsFreeze(row, day) THEN <<final_points, "Hold">>
       ELSE IF Reduce(row, final_points) THEN <<final_points, "Reduce">>
       ELSE IF StrongBuy(row, final_points, day) THEN <<final_points, "Strong Buy">>
       ELSE IF BuySmall(row, final_points, day) THEN <<final_points, "Buy (Small)">>
       ELSE <<final_points, "Hold">>

\* lines 527-646: (points, decision) of a row on a given day; "Rejected"
\* stands for the string "Rejected - Universal Filter"
calculate_score(row, sector_pe_medians, sector_vol_medians, day) ==
    LET final_points == FinalPoints(row, sector_pe_medians, sector_vol_medians)
    IN IF ScoringRaises(row) THEN <<0, "ERROR">>
       ELSE IF HardReject(row) THEN <<final_points, "Rejected">>
       ELSE IF HardSell(row, final_points) THEN <<final_points, "Sell">>
       ELSE IF EarningsFreeze(row, day) THEN <<final_points, "Hold">>
       ELSE IF Reduce(row, final_points) THEN <<final_points, "Reduce">>
       ELSE IF StrongBuy(row, final_points, day) THEN <<final_points, "Strong Buy">>
       ELSE IF BuySmall(row, final_points, day) THEN <<final_points, "Buy (Small)">>
       ELSE <<final_points, "Hold">>

\* ------------------------------------ the universe (get_sp500_tickers)
\* the rows of the constituents table: ticker, security, sector, sub-industry
UpstreamRows ==
    { [Symbol |-> u, Security |-> "Security", GICSSector |-> sector,
       SubIndustry |-> "Sub-Industry"] :
        u \in UpstreamTickers, sector \in {Tech, "Energy"} }

Pages == SeqsUpTo(UpstreamRows, MaxListing)

\* A Python value of the returned list: a str is modelled as a record with
\* the one field "str", a dict as the record of its keys.
\* get_sp500_tickers of app.py, lines 242-255: the cleaned text of the first
\* cell of every row, a list of str; [] when anything raised
AppTickers(page, failed) ==
    IF failed THEN <<>>
    ELSE LET syms == ScrapeTickers([k \in 1..Len(page) |-> page[k].Symbol])
         IN [k \in 1..Len(syms) |-> [str |-> syms[k]]]

\* get_sp500_tickers of fetch_sp500.py, lines 21-30: one dict per row of the
\* table; [] when anything raised
ScriptTickers(page, failed) ==
    IF failed THEN <<>>
    ELSE [k \in 1..Len(page) |->
            [Symbol |-> NormalizeSymbol(page[k].Symbol),
             Name |-> page[k].Security,
             Sector |-> page[k].GICSSector,
             Industry |-> page[k].SubIndustry]]

\* a call of get_sp500_tickers of app.py
ResolveApp ==
    /\ \E failed \in BOOLEAN :
          universe' = [universe EXCEPT !.by = "app",
                                       !.tickers = AppTickers(universe.page, failed)]
    /\ UNCHANGED <<env, today, lastResponse, refresh_status, file, fileState,
                   req, cycle, script, refresh_lock, statusRead, scored_row, medians,
                   result, sector_data>>

\* a call of get_sp500_tickers of fetch_sp500.py
ResolveScript ==
    /\ \E failed \in BOOLEAN :
          universe' = [universe EXCEPT !.by = "script",
                                       !.tickers = ScriptTickers(universe.page, failed)]
    /\ UNCHANGED <<env, today, lastResponse, refresh_status, file, fileState,
                   req, cycle, script, refresh_lock, statusRead, scored_row, medians,
                   result, sector_data>>

\* ------------------------------ the sector aggregator (calculate_sector_data)
RECURSIVE Sum(_)
Sum(values) == IF values = <<>> THEN 0 ELSE Head(values) + Sum(Tail(values))

\* pd.DataFrame(data): the market cap or the P/E of a record, in a column
\* that is numeric as soon as one record has a number
FrameCell(data, column, x) ==
    IF x = None /\ \E k \in 1..Len(data) : IsNum(data[k][column]) THEN NaN ELSE x

\* line 66: sum([x for x in group['Market Cap'] if x is not None]); a NaN
\* is not None and makes the sum NaN
TotalMcap(data, group) ==
    LET caps == [k \in 1..Len(group) |->
                    FrameCell(data, "MarketCap", group[k].MarketCap)]
        kept == SelectSeq(caps, LAMBDA x : x # None)
    IN IF \E k \in 1..Len(kept) : kept[k] = NaN THEN NaN
       ELSE Num(Sum([k \in 1..Len(kept) |-> kept[k][1]]))

\* lines 69-73 and 85: the weighted P/E of a group in hundredths, rounded,
\* or None
WeightedPE(data, group, total_mcap) ==
    LET pe_group == SelectSeq(group, LAMBDA r : IsNum(r.PE) /\ IsNum(r.MarketCap))
        products == Sum([k \in 1..Len(pe_group) |->
                            pe_group[k].PE[1] * pe_group[k].MarketCap[1]])
        caps == Sum([k \in 1..Len(pe_group) |-> pe_group[k].MarketCap[1]])
    IN IF pe_group # <<>> /\ Gt(total_mcap, Num(0))
       THEN IF caps = 0 \/ products = 0 THEN None
            ELSE Num(RoundDiv(100 * products, caps))
       ELSE None

\* lines 52-94: one summary per sector other than "N/A", in the order of
\* their names
calculate_sector_data(data) ==
    LET names == { data[k].Sector : k \in 1..Len(data) } \ {NoSector}
        ordered == SortSeq(CHOOSE q \in [1..Cardinality(names) -> names] :
                               Range(q) = names, LAMBDA a, b : a < b)
    IN [n \in 1..Len(ordered) |->
          LET group == SelectSeq(data, LAMBDA r : r.Sector = ordered[n])
              total_mcap == TotalMcap(data, group)
          IN [Sector |-> ordered[n],
              MarketCap |-> total_mcap,
              WeightedPE |-> WeightedPE(data, group, total_mcap),
              StockCount |-> Len(group)]]

\* /api/sector_data (lines 121-125)
ApiSectorData ==
    /\ sector_data' = [asked |-> TRUE, sectors |-> calculate_sector_data(load_sp500_data)]
    /\ UNCHANGED <<env, today, lastResponse, refresh_status, file, fileState,
                   req, cycle, script, refresh_lock, statusRead, scored_row, medians,
                   result, universe>>

\* ------------------------------------------------------- the refresh lock
\* a "with refresh_lock:" block: it waits for the lock, and none of the
\* blocks of app.py contains a call that can wait on anything else, so the
\* lock is free again when the block is left
WithRefreshLock ==
    /\ refresh_lock = 0
    /\ refresh_lock' = 0

\* ------------------------------------- /api/refresh_status (lines 717-720)
\* the dict is serialised as it is, without taking the lock
ApiRefreshStatus ==
    /\ statusRead' = refresh_status
    /\ UNCHANGED <<env, today, lastResponse, refresh_status, file, fileState,
                   req, cycle, script, refresh_lock, scored_row, medians, result,
                   sector_data, universe>>

\* ------------------------------------------------ /api/refresh (api_refresh)
\* the latest last-updated date over the records of a non-empty snapshot
MostRecentDate(data) ==
    CHOOSE d \in { LastDate(data[k].LastUpdated) : k \in 1..Len(data) } :
        \A k \in 1..Len(data) : LastDate(data[k].LastUpdated) <= d

\* symbols that have a record dated `day` in the snapshot
FreshSymbols(data, day) ==
    { data[k].Symbol : k \in { j \in 1..Len(data) : LastDate(data[j].LastUpdated) = day } }

\* the handler without its guard
AlreadyRunningNever(rs) == FALSE

\* `if refresh_status["is_running"]` under refresh_lock
AlreadyRunning(rs) == rs.is_running

\* the test taken over the latest date of the snapshot
UpToDateLatest(data, day) ==
    /\ data # <<>>
    /\ MostRecentDate(data) = day

\* the test without the split: the whole string against the date
UpToDateNoSplit(data, day) ==
    /\ data # <<>>
    /\ data[1].LastUpdated = IsoStamp(day)

\* the "already have data for today" test: the date of data[0]
UpToDate(data, day) ==
    /\ data # <<>>
    /\ LastDate(data[1].LastUpdated) = day

\* handler threads not serving a request
IdleHandlers == { r \in Handlers : req[r].pc = "idle" }

\* lines 681-689: read force, then check the flag under the lock.  The server
\* hands a request to a handler thread of its own choice: the idle one of
\* lowest index.
ApiRefreshCheck(r, force) ==
    /\ r \in IdleHandlers
    /\ \A q \in IdleHandlers : r <= q
    /\ IF AlreadyRunning(refresh_status)
       THEN /\ lastResponse' = "already_running"
            /\ UNCHANGED req
       ELSE /\ req' = [req EXCEPT ![r] = [pc |-> "load", force |-> force]]
            /\ UNCHANGED lastResponse
    /\ WithRefreshLock
    /\ UNCHANGED <<env, calc, today, refresh_status, file, fileState, cycle, script>>

FreeThreads == { t \in Threads : cycle[t].pc = "none" }

\* threading.Thread(target=fetch_and_update_data).start()
StartThread(fresh) ==
    /\ FreeThreads # {}
    /\ LET t == CHOOSE x \in FreeThreads : \A y \in FreeThreads : x <= y
       IN cycle' = [cycle EXCEPT ![t] = [NoCycle EXCEPT !.pc = "start", !.fresh = fresh]]

\* lines 691-715: unless forced, load the snapshot and answer 200 when it is
\* dated today; otherwise start the background thread and answer 202
ApiRefreshLoad(r) ==
    /\ req[r].pc = "load"
    /\ LET data == load_sp500_data
       IN IF ~req[r].force /\ UpToDate(data, today)
          THEN /\ lastResponse' = "current"
               /\ UNCHANGED cycle
          ELSE /\ StartThread(IF req[r].force THEN {} ELSE FreshSymbols(data, today))
               /\ lastResponse' = IF req[r].force THEN "started_forced" ELSE "started"
    /\ req' = [req EXCEPT ![r] = IdleReq]
    /\ UNCHANGED <<env, calc, refresh_lock, today, refresh_status, file, fileState, script>>

\* --------------------------------- the refresh cycle (fetch_and_update_data)
SetCycle(t, c) == cycle' = [cycle EXCEPT ![t] = c]

\* the thread returns: its frame is gone
EndCycle(t) == cycle' = [cycle EXCEPT ![t] = NoCycle]

\* the "no MA data" exit leaving the flag set
CycleNoMaDataStuck(t) ==
    /\ cycle[t].pc = "after_ohlcv"
    /\ cycle[t].ma_rows = <<>>
    /\ refresh_status' = [refresh_status EXCEPT !.status = "error"]
    /\ EndCycle(t)
    /\ WithRefreshLock
    /\ UNCHANGED <<env, calc, lastResponse, today, file, fileState, req, script>>

\* the first lock block stretched over the resolution of the universe
CycleStartKeepsLock(t) ==
    /\ cycle[t].pc = "start"
    /\ refresh_lock = 0
    /\ refresh_lock' = t
    /\ refresh_status' = [is_running |-> TRUE, current |-> 0, total |-> 0,
                          status |-> "starting"]
    /\ SetCycle(t, [cycle[t] EXCEPT !.pc = "tickers"])
    /\ UNCHANGED <<env, calc, lastResponse, today, file, fileState, req, script>>

\* lines 365-370
CycleStart(t) ==
    /\ cycle[t].pc = "start"
    /\ refresh_status' = [is_running |-> TRUE, current |-> 0, total |-> 0,
                          status |-> "starting"]
    /\ SetCycle(t, [cycle[t] EXCEPT !.pc = "tickers"])
    /\ WithRefreshLock
    /\ UNCHANGED <<env, calc, lastResponse, today, file, fileState, req, script>>

\* get_sp500_tickers of app.py: the scraped symbols, or [] when the request,
\* the parse or the table lookup fails
get_sp500_tickers(failed) == IF failed THEN <<>> ELSE listing

\* lines 373-386: resolve the universe, publish the total, enter the loop
CycleTickers(t) ==
    /\ cycle[t].pc = "tickers"
    /\ \E failed \in BOOLEAN :
         LET tickers == get_sp500_tickers(failed)
         IN /\ refresh_status' = [refresh_status EXCEPT !.total = Len(tickers),
                                                        !.status = "fetching_ohlcv"]
            /\ SetCycle(t, [cycle[t] EXCEPT
                   !.tickers = tickers,
                   !.i = 0,
                   !.pc = IF Len(tickers) > 0 THEN "ohlcv" ELSE "after_ohlcv"])
    /\ WithRefreshLock
    /\ UNCHANGED <<env, calc, lastResponse, today, file, fileState, req, script>>

\* line 409: rows need 200 closes (and 20 volumes)
MinCloses == 200

\* symbols of the records of a snapshot, in order
SymbolsOf(data) == [k \in 1..Len(data) |-> data[k].Symbol]

\* a failed download falling back on the cached records
MaRowsWithCache(batch, raised) ==
    IF raised THEN SelectSeq(batch, LAMBDA s : s \in Range(SymbolsOf(load_sp500_data)))
    ELSE SelectSeq(batch, LAMBDA s : closes[s] >= MinCloses)

\* the rows sorted by symbol
MaRowsSorted(batch, raised) ==
    IF raised THEN <<>>
    ELSE SortSeq(SelectSeq(batch, LAMBDA s : closes[s] >= MinCloses), StrLess)

\* one symbol without enough history losing the whole batch
MaRowsAbortOnShort(batch, raised) ==
    IF raised \/ \E k \in 1..Len(batch) : closes[batch[k]] < MinCloses THEN <<>>
    ELSE batch

\* lines 393-462: one row per ticker of the batch that has enough history,
\* the others are skipped; a download that raises leaves no row at all
MaRows(batch, raised) ==
    IF raised THEN <<>>
    ELSE SelectSeq(batch, LAMBDA s : closes[s] >= MinCloses)

\* the loop skipping the symbols whose record is dated today
CycleOhlcvBatchIncremental(t) ==
    /\ cycle[t].pc = "ohlcv"
    /\ UNCHANGED refresh_status
    /\ LET c == cycle[t]
           batch == SelectSeq(Batch(c.tickers, c.i, OhlcvBatchSize),
                              LAMBDA s : s \notin c.fresh)
           next_i == c.i + OhlcvBatchSize
       IN \E raised \in BOOLEAN :
            SetCycle(t, [c EXCEPT
                !.ma_rows = c.ma_rows \o MaRows(batch, raised),
                !.i = next_i,
                !.fetched = c.fetched \cup Range(batch),
                !.failed = IF raised THEN c.failed \cup Range(batch) ELSE c.failed,
                !.attempts = [s \in Symbols |->
                                 IF s \in Range(batch) THEN c.attempts[s] + 1
                                                       ELSE c.attempts[s]],
                !.pc = IF next_i < Len(c.tickers) THEN "ohlcv" ELSE "after_ohlcv"])
    /\ WithRefreshLock
    /\ UNCHANGED <<env, calc, lastResponse, today, file, fileState, req, script>>

\* lines 387-463, one turn of the loop: the message, one yf.download call
\* for the batch, the rows, the pause
CycleOhlcvBatch(t) ==
    /\ cycle[t].pc = "ohlcv"
    /\ UNCHANGED refresh_status
    /\ LET c == cycle[t]
           batch == Batch(c.tickers, c.i, OhlcvBatchSize)
           next_i == c.i + OhlcvBatchSize
       IN \E raised \in BOOLEAN :
            SetCycle(t, [c EXCEPT
                !.ma_rows = c.ma_rows \o MaRows(batch, raised),
                !.i = next_i,
                !.fetched = c.fetched \cup Range(batch),
                !.failed = IF raised THEN c.failed \cup Range(batch) ELSE c.failed,
                !.attempts = [s \in Symbols |->
                                 IF s \in Range(batch) THEN c.attempts[s] + 1
                                                       ELSE c.attempts[s]],
                !.pc = IF next_i < Len(c.tickers) THEN "ohlcv" ELSE "after_ohlcv"])
    /\ WithRefreshLock
    /\ UNCHANGED <<env, calc, lastResponse, today, file, fileState, req, script>>

\* the "no MA data" exit saving the empty result
CycleNoMaDataWrites(t) ==
    /\ cycle[t].pc = "after_ohlcv"
    /\ cycle[t].ma_rows = <<>>
    /\ refresh_status' = [refresh_status EXCEPT !.is_running = FALSE,
                                                !.status = "error"]
    /\ EndCycle(t)
    /\ file' = <<>>
    /\ fileState' = "complete"
    /\ WithRefreshLock
    /\ UNCHANGED <<env, calc, lastResponse, today, req, script>>

\* lines 465-470: no row at all ends the cycle
CycleNoMaData(t) ==
    /\ cycle[t].pc = "after_ohlcv"
    /\ cycle[t].ma_rows = <<>>
    /\ refresh_status' = [refresh_status EXCEPT !.is_running = FALSE,
                                                !.status = "error"]
    /\ EndCycle(t)
    /\ WithRefreshLock
    /\ UNCHANGED <<env, calc, lastResponse, today, file, fileState, req, script>>

\* lines 472-482
CycleStartFundamentals(t) ==
    /\ cycle[t].pc = "after_ohlcv"
    /\ cycle[t].ma_rows # <<>>
    /\ refresh_status' = [refresh_status EXCEPT !.status = "fetching_fundamentals",
                                                !.total = Len(cycle[t].ma_rows)]
    /\ SetCycle(t, [cycle[t] EXCEPT !.pc = "fund", !.i = 0])
    /\ WithRefreshLock
    /\ UNCHANGED <<env, calc, lastResponse, today, file, fileState, req, script>>

\* get_batch_stock_info: one row per symbol, with the fields of its info or,
\* when the lookup raised, with nothing but the ticker
get_batch_stock_info(symbols) ==
    [k \in 1..Len(symbols) |->
        LET q == quote[symbols[k]]
        IN IF q.info_raises
           THEN [Ticker |-> symbols[k], Sector |-> NoSector, MarketCap |-> None,
                 PE |-> None, Price |-> None, EarningsDate |-> None]
           ELSE [Ticker |-> symbols[k], Sector |-> q.row.Sector,
                 MarketCap |-> q.row.MarketCap, PE |-> q.row.PE,
                 Price |-> q.row.Price, EarningsDate |-> q.row.EarningsDate]]

\* the loop saving the rows so far after each batch
CycleFundBatchCheckpoint(t) ==
    /\ cycle[t].pc = "fund"
    /\ refresh_status' = [refresh_status EXCEPT !.current = cycle[t].i]
    /\ LET c == cycle[t]
           batch == Batch(c.ma_rows, c.i, FundBatchSize)
           next_i == c.i + FundBatchSize
       IN /\ SetCycle(t, [c EXCEPT
                !.info_rows = c.info_rows \o get_batch_stock_info(batch),
                !.i = next_i,
                !.pc = IF next_i < Len(c.ma_rows) THEN "fund" ELSE "save"])
          /\ file' = [k \in 1..Len(batch) |->
                        [Symbol |-> batch[k], LastUpdated |-> AppStamp(today)]]
          /\ fileState' = "complete"
    /\ WithRefreshLock
    /\ UNCHANGED <<env, calc, lastResponse, today, req, script>>

\* lines 485-493, one turn of the loop: the progress counter, then the
\* fundamentals of the batch
CycleFundBatch(t) ==
    /\ cycle[t].pc = "fund"
    /\ refresh_status' = [refresh_status EXCEPT !.current = cycle[t].i]
    /\ LET c == cycle[t]
           batch == Batch(c.ma_rows, c.i, FundBatchSize)
           next_i == c.i + FundBatchSize
       IN \/ SetCycle(t, [c EXCEPT
                !.info_rows = c.info_rows \o get_batch_stock_info(batch),
                !.i = next_i,
                !.pc = IF next_i < Len(c.ma_rows) THEN "fund" ELSE "save"])
          \/ \* line 320 raising: yf.Tickers is built outside the per-symbol try
             SetCycle(t, [c EXCEPT !.pc = "except", !.error = "yf.Tickers"])
    /\ WithRefreshLock
    /\ UNCHANGED <<env, calc, lastResponse, today, file, fileState, req, script>>

\* pd.DataFrame(info_rows): a cell of a numeric column; None becomes NaN as
\* soon as the column holds a number
Cell(info_rows, column, x) ==
    IF x = None /\ \E k \in 1..Len(info_rows) : IsNum(info_rows[k][column])
    THEN NaN
    ELSE x

\* one row of final_df: the cells of ma_rows for the symbol, the cells of
\* the matching info row and the trend strength (lines 515-518)
FrameRow(sym, info, info_rows) ==
    LET m == quote[sym].row
    IN [Symbol |-> sym,
        cells |-> [Price |-> Cell(info_rows, "Price", info.Price),
                   MA50 |-> m.MA50, MA200 |-> m.MA200,
                   TrendStrength |-> TrendStrength(m.MA50, m.MA200),
                   Ret1D |-> m.Ret1D, Ret5D |-> m.Ret5D, Ret1M |-> m.Ret1M,
                   Ret6M |-> m.Ret6M, Vol6M |-> m.Vol6M, Volume |-> m.Volume,
                   VolChange1D |-> m.VolChange1D, VolChange5D |-> m.VolChange5D,
                   MarketCap |-> Cell(info_rows, "MarketCap", info.MarketCap),
                   PE |-> Cell(info_rows, "PE", info.PE),
                   Sector |-> info.Sector,
                   EarningsDate |-> info.EarningsDate]]

\* ma_df.merge(info_df, left_on="Symbol", right_on="Ticker", how="left"):
\* for each left row, in order, one output row per matching right row, or
\* one row with missing values when none matches
RECURSIVE Merge(_, _)
Merge(ma_rows, info_rows) ==
    IF ma_rows = <<>> THEN <<>>
    ELSE LET sym == Head(ma_rows)
             m == SelectSeq(info_rows, LAMBDA r : r.Ticker = sym)
             missing == [Ticker |-> sym, Sector |-> NaN, MarketCap |-> NaN,
                         PE |-> NaN, Price |-> NaN, EarningsDate |-> None]
             out == IF m = <<>>
                    THEN << FrameRow(sym, missing, info_rows) >>
                    ELSE [k \in 1..Len(m) |-> FrameRow(sym, m[k], info_rows)]
         IN out \o Merge(Tail(ma_rows), info_rows)

\* Series.median of the numbers of a column: the middle one, or the mean of
\* the two middle ones (whole on the values explored, which are all even);
\* NaN when there is no number
Median(values) ==
    LET sorted == SortSeq(values, LAMBDA a, b : a < b)
        n == Len(sorted)
    IN IF n = 0 THEN NaN
       ELSE IF n % 2 = 1 THEN Num(sorted[(n + 1) \div 2])
       ELSE Num((sorted[n \div 2] + sorted[n \div 2 + 1]) \div 2)

\* lines 524-525: final_df.groupby('Sector')[column].median().to_dict()
SectorMedians(frame, column) ==
    [sector \in { frame[k].cells.Sector : k \in 1..Len(frame) } |->
        LET group == SelectSeq(frame, LAMBDA r : r.cells.Sector = sector
                                                 /\ IsNum(r.cells[column]))
        IN Median([k \in 1..Len(group) |-> group[k].cells[column][1]])]

\* the scoring pass where one exception spoils every row
ScoredRowsPoisoned(frame, day) ==
    LET pe == SectorMedians(frame, "PE")
        vol == SectorMedians(frame, "Vol6M")
        poisoned == \E k \in 1..Len(frame) : ScoringRaises(frame[k].cells)
    IN [k \in 1..Len(frame) |->
          LET sd == IF poisoned THEN <<0, "ERROR">>
                    ELSE calculate_score(frame[k].cells, pe, vol, day)
          IN [Symbol |-> frame[k].Symbol, cells |-> frame[k].cells,
              Score |-> sd[1], Decision |-> sd[2]]]

\* lines 524-525 and 648-650: the medians, then every row scored on its own
ScoredRows(frame, day) ==
    LET pe == SectorMedians(frame, "PE")
        vol == SectorMedians(frame, "Vol6M")
    IN [k \in 1..Len(frame) |->
          LET sd == calculate_score(frame[k].cells, pe, vol, day)
          IN [Symbol |-> frame[k].Symbol, cells |-> frame[k].cells,
              Score |-> sd[1], Decision |-> sd[2]]]

\* final_df.where(pd.notnull(final_df), None): a missing value becomes null
Nullable(x) == IF x = NaN THEN None ELSE x

\* lines 652-654: final_df['LastUpdated'] = now; to_dict(orient='records').
\* Of the price cells the records keep the two averages and the trend
\* strength here.
Stamped(rows, stamp) ==
    [k \in 1..Len(rows) |->
        [Symbol |-> rows[k].Symbol,
         LastUpdated |-> stamp,
         Sector |-> rows[k].cells.Sector,
         MarketCap |-> Nullable(rows[k].cells.MarketCap),
         PE |-> Nullable(rows[k].cells.PE),
         Price |-> Nullable(rows[k].cells.Price),
         EarningsDate |-> rows[k].cells.EarningsDate,
         MA50 |-> Nullable(rows[k].cells.MA50),
         MA200 |-> Nullable(rows[k].cells.MA200),
         TrendStrength |-> Nullable(rows[k].cells.TrendStrength),
         Score |-> rows[k].Score,
         Decision |-> rows[k].Decision]]

\* line 656: open() raises and the file is left as it was; or, lines 495-656,
\* merge, score, stamp and open the file for writing
CycleOpen(t) ==
    /\ cycle[t].pc = "save"
    /\ \/ /\ SetCycle(t, [cycle[t] EXCEPT !.pc = "except", !.error = "open"])
          /\ UNCHANGED <<file, fileState>>
       \/ /\ SetCycle(t, [cycle[t] EXCEPT
                !.pc = "dump",
                !.all_data = Stamped(ScoredRows(Merge(cycle[t].ma_rows,
                                                      cycle[t].info_rows), today),
                                     AppStamp(today))])
          /\ OpenForWrite
    /\ UNCHANGED <<env, calc, refresh_lock, lastResponse, today, refresh_status, req, script>>

\* line 657 and the close of the with block; or json.dump raises part-way
\* and what was written stays
CycleDump(t) ==
    /\ cycle[t].pc = "dump"
    /\ \/ /\ DumpAndClose(cycle[t].all_data)
          /\ SetCycle(t, [cycle[t] EXCEPT !.pc = "finish"])
       \/ /\ SetCycle(t, [cycle[t] EXCEPT !.pc = "except", !.error = "json.dump"])
          /\ UNCHANGED <<file, fileState>>
    /\ UNCHANGED <<env, calc, refresh_lock, lastResponse, today, refresh_status, req, script>>

\* lines 661-667
CycleSuccess(t) ==
    /\ cycle[t].pc = "finish"
    /\ refresh_status' = [refresh_status EXCEPT !.is_running = FALSE,
                                                !.status = "success",
                                                !.current = Len(cycle[t].ma_rows)]
    /\ EndCycle(t)
    /\ WithRefreshLock
    /\ UNCHANGED <<env, calc, lastResponse, today, file, fileState, req, script>>

\* lines 669-675
CycleExcept(t) ==
    /\ cycle[t].pc = "except"
    /\ refresh_status' = [refresh_status EXCEPT !.is_running = FALSE,
                                                !.status = "error"]
    /\ EndCycle(t)
    /\ WithRefreshLock
    /\ UNCHANGED <<env, calc, lastResponse, today, file, fileState, req, script>>

CycleStep(t) ==
    \/ CycleStart(t)
    \/ CycleTickers(t)
    \/ CycleOhlcvBatch(t)
    \/ CycleNoMaData(t)
    \/ CycleStartFundamentals(t)
    \/ CycleFundBatch(t)
    \/ CycleOpen(t)
    \/ CycleDump(t)
    \/ CycleSuccess(t)
    \/ CycleExcept(t)

\* ------------------------------------------- fetch_all of fetch_sp500.py
\* line 44: a record needs 50 rows of history
MinHistory == 50

\* the record with a 200-day average taken over whatever history there is
get_stock_data_any_average(symbol, raised) ==
    IF ~raised /\ closes[symbol] >= MinHistory
    THEN LET q == quote[symbol]
         IN << [Symbol |-> symbol,
                LastUpdated |-> IsoStamp(today),
                MA50 |-> q.row.MA50,
                MA200 |-> q.row.MA200,
                TrendStrength |-> TrendStrength(q.row.MA50, q.row.MA200),
                PE |-> IF ~q.info_raises /\ Truthy(q.row.PE) THEN q.row.PE ELSE None,
                MarketCap |-> IF q.info_raises THEN None ELSE q.row.MarketCap] >>
    ELSE <<>>

\* get_stock_data: None, or a record dated date.today().  The 200-day
\* average needs 200 closes, the trend strength needs the average and is
\* dropped when it is 0; a failed info lookup leaves P/E and market cap null.
get_stock_data(symbol, raised) ==
    IF ~raised /\ closes[symbol] >= MinHistory
    THEN LET q == quote[symbol]
             ma_200d == IF closes[symbol] >= 200 THEN q.row.MA200 ELSE None
             trend_strength == TrendStrength(q.row.MA50, ma_200d)
         IN << [Symbol |-> symbol,
                LastUpdated |-> IsoStamp(today),
                MA50 |-> q.row.MA50,
                MA200 |-> IF Truthy(ma_200d) THEN ma_200d ELSE None,
                TrendStrength |-> IF Truthy(trend_strength) THEN trend_strength
                                                            ELSE None,
                PE |-> IF ~q.info_raises /\ Truthy(q.row.PE) THEN q.row.PE ELSE None,
                MarketCap |-> IF q.info_raises THEN None ELSE q.row.MarketCap] >>
    ELSE <<>>

\* lines 77-79
ScriptStart ==
    /\ script.pc = "none"
    /\ \E failed \in BOOLEAN :
         LET tickers == IF failed THEN <<>> ELSE listing
         IN script' = [pc |-> IF tickers = <<>> THEN "open" ELSE "fetch",
                       tickers |-> tickers, idx |-> 0, all_data |-> <<>>,
                       failed |-> {}]
    /\ UNCHANGED <<env, calc, refresh_lock, lastResponse, today, refresh_status, file, fileState, req, cycle>>

\* lines 82-88: one ticker of the current batch
ScriptFetch ==
    /\ script.pc = "fetch"
    /\ \E raised \in BOOLEAN :
         script' = [script EXCEPT
               !.all_data = script.all_data \o
                            get_stock_data(script.tickers[script.idx + 1], raised),
               !.idx = script.idx + 1,
               !.failed = IF raised THEN script.failed \cup {script.tickers[script.idx + 1]}
                                    ELSE script.failed,
               !.pc = IF script.idx + 1 < Len(script.tickers) THEN "fetch" ELSE "open"]
    /\ UNCHANGED <<env, calc, refresh_lock, lastResponse, today, refresh_status, file, fileState, req, cycle>>

\* line 91
ScriptOpen ==
    /\ script.pc = "open"
    /\ OpenForWrite
    /\ script' = [script EXCEPT !.pc = "dump"]
    /\ UNCHANGED <<env, calc, refresh_lock, lastResponse, today, refresh_status, req, cycle>>

\* lines 92-93; the run is over
ScriptDump ==
    /\ script.pc = "dump"
    /\ DumpAndClose(script.all_data)
    /\ script' = NoScript
    /\ UNCHANGED <<env, calc, refresh_lock, lastResponse, today, refresh_status, req, cycle>>

\* --------------------------------------------------------- specifications

\* the initial states with one symbol listed, which has a full year of history
InitOneSymbol ==
    /\ Init
    /\ Len(listing) = 1
    /\ closes[listing[1]] >= MinCloses

\* The web application alone, within one day: any number of overlapping
\* requests and cycle threads.  How requests and threads interleave does not
\* depend on what is listed, so one symbol is.
Next ==
    \/ \E r \in Handlers, force \in BOOLEAN : ApiRefreshCheck(r, force)
    \/ \E r \in Handlers : ApiRefreshLoad(r)
    \/ \E t \in Threads : CycleStep(t)

Spec == InitOneSymbol /\ [][Next]_vars

\* no refresh thread is alive, no request is being handled and fetch_sp500.py
\* is not running
Quiescent ==
    /\ \A t \in Threads : cycle[t].pc = "none"
    /\ \A r \in Handlers : req[r].pc = "idle"
    /\ script.pc = "none"

\* a request from a client that waited for the previous refresh to be over
ApiRefreshWhenQuiet(r, force) == Quiescent /\ ApiRefreshCheck(r, force)

\* The application within one day, with a client that asks for a refresh
\* only once the previous one is over; every started thread keeps being
\* scheduled.
SeqNext ==
    \/ \E r \in Handlers, force \in BOOLEAN : ApiRefreshWhenQuiet(r, force)
    \/ \E r \in Handlers : ApiRefreshLoad(r)
    \/ \E t \in Threads : CycleStep(t)

FairSpec == Init /\ [][SeqNext]_vars /\ \A t \in Threads : WF_vars(CycleStep(t))

\* a run of fetch_sp500.py started while the application is at rest
ScriptStartWhenQuiet == Quiescent /\ ScriptStart

\* The application and runs of fetch_sp500.py over several days, with an
\* operator who asks for a refresh, or runs the script, only once the
\* previous one is over.
DayNext ==
    \/ Tick
    \/ \E r \in Handlers, force \in BOOLEAN : ApiRefreshWhenQuiet(r, force)
    \/ \E r \in Handlers : ApiRefreshLoad(r)
    \/ \E t \in Threads : CycleStep(t)
    \/ ScriptStartWhenQuiet
    \/ ScriptFetch
    \/ ScriptOpen
    \/ ScriptDump

DaySpec == Init /\ [][DayNext]_vars

\* The application within one day with a sequential client that also polls
\* /api/refresh_status at any moment.
StatusNext ==
    \/ SeqNext
    \/ ApiRefreshStatus

StatusSpec == Init /\ [][StatusNext]_vars

\* line 648, or fix_local_json.py: one row is scored now
Score ==
    /\ LET s == calculate_score(scored_row, medians.pe, medians.vol, today)
       IN result' = [points |-> s[1], decision |-> s[2], day |-> today]
    /\ UNCHANGED <<env, today, lastResponse, refresh_status, file, fileState,
                   req, cycle, script, refresh_lock, statusRead, scored_row, medians,
                   sector_data, universe>>

\* any row and any pair of median tables, nothing else going on
InitScore ==
    /\ listing = <<>>
    /\ closes = [s \in Symbols |-> 50]
    /\ quote = [s \in Symbols |-> PlainQuote]
    /\ scored_row \in Rows
    /\ medians \in MedianTables
    /\ AtRest

\* The scoring engine on its own: a row is scored, on one day or another,
\* any number of times.
ScoreNext ==
    \/ Score
    \/ Tick

ScoreSpec == InitScore /\ [][ScoreNext]_vars

\* every history and every quote upstream may have on the listed symbols
QuoteHistoryLens == {49, 50, 200}

InitQuotes ==
    /\ listing \in { ScrapeTickers(page) : page \in Listings }
    /\ closes \in [Symbols -> QuoteHistoryLens]
    /\ \A s \in Symbols \ Range(listing) : closes[s] = 50
    /\ quote \in [Symbols -> Quotes]
    /\ \A s \in Symbols \ Range(listing) : quote[s] = PlainQuote
    /\ scored_row = PlainRow
    /\ medians = PlainMedians
    /\ AtRest

\* The application and runs of fetch_sp500.py within one day, one thing at a
\* time, over every kind of upstream data.
QuoteNext ==
    \/ \E r \in Handlers, force \in BOOLEAN : ApiRefreshWhenQuiet(r, force)
    \/ \E r \in Handlers : ApiRefreshLoad(r)
    \/ \E t \in Threads : CycleStep(t)
    \/ ScriptStartWhenQuiet
    \/ ScriptFetch
    \/ ScriptOpen
    \/ ScriptDump

QuoteSpec == InitQuotes /\ [][QuoteNext]_vars

\* the records of a snapshot, as far as the aggregator reads them
MaxGroup == 2

SectorRecords ==
    { [Sector |-> sector, MarketCap |-> mcap, PE |-> pe] :
        sector \in {Tech, NoSector},
        mcap \in { None, Num(0), Num(10), Num(30) },
        pe \in { None, Num(10), Num(20) } }

\* any snapshot on disk, nothing else going on
InitSectors ==
    /\ listing = <<>>
    /\ closes = [s \in Symbols |-> 50]
    /\ quote = [s \in Symbols |-> PlainQuote]
    /\ today = 0
    /\ lastResponse = NoResponse
    /\ refresh_status = IdleStatus
    /\ file \in SeqsUpTo(SectorRecords, MaxGroup)
    /\ fileState = "complete"
    /\ req = [r \in Handlers |-> IdleReq]
    /\ cycle = [t \in Threads |-> NoCycle]
    /\ script = NoScript
    /\ refresh_lock = 0
    /\ statusRead = NoStatus
    /\ scored_row = PlainRow
    /\ medians = PlainMedians
    /\ result = NoResult
    /\ sector_data = NoSectorData
    /\ universe = NoUniverse

\* The sector aggregator on its own, over one snapshot or another.
SectorNext == ApiSectorData

SectorSpec == InitSectors /\ [][SectorNext]_vars

\* rows that pass the first two gates and differ by their earnings date
DatedRows ==
    { RowOf(Num(50), Num(40), <<Num(2), Num(5), Num(10)>>, Num(1), Num(100), Num(20),
            Num(1000000), Num(50), Num(10), Num(10), edate) : edate \in EarningsDates }

InitDated ==
    /\ listing \in { ScrapeTickers(page) : page \in Listings }
    /\ Len(listing) = 1
    /\ closes = [s \in Symbols |-> IF s \in Range(listing) THEN MinCloses ELSE 50]
    /\ quote = [s \in Symbols |-> PlainQuote]
    /\ scored_row \in DatedRows
    /\ medians = PlainMedians
    /\ AtRest

\* The scoring engine called at any moment of the life of the application:
\* before, during and after refresh cycles, on one day or another.
DatedNext ==
    \/ SeqNext
    \/ Score
    \/ Tick

DatedSpec == InitDated /\ [][DatedNext]_vars

\* upstream with symbols whose two averages differ and symbols whose two
\* averages are the same, with a short or a full history
InitTrend ==
    /\ listing \in { ScrapeTickers(page) : page \in Listings }
    /\ closes \in [Symbols -> HistoryLens]
    /\ \A s \in Symbols \ Range(listing) : closes[s] = 50
    /\ quote \in [Symbols -> {PlainQuote, FlatQuote}]
    /\ \A s \in Symbols \ Range(listing) : quote[s] = PlainQuote
    /\ scored_row = PlainRow
    /\ medians = PlainMedians
    /\ AtRest

\* The two fetchers of price metrics within one day, one thing at a time:
\* refresh cycles of the application and runs of fetch_sp500.py.
TrendNext ==
    \/ \E r \in Handlers, force \in BOOLEAN : ApiRefreshWhenQuiet(r, force)
    \/ \E r \in Handlers : ApiRefreshLoad(r)
    \/ \E t \in Threads : CycleStep(t)
    \/ ScriptStartWhenQuiet
    \/ ScriptFetch
    \/ ScriptOpen
    \/ ScriptDump

TrendSpec == InitTrend /\ [][TrendNext]_vars

\* any constituents table upstream, nothing else going on
InitUniverse ==
    /\ listing = <<>>
    /\ closes = [s \in Symbols |-> 50]
    /\ quote = [s \in Symbols |-> PlainQuote]
    /\ today = 0
    /\ lastResponse = NoResponse
    /\ refresh_status = IdleStatus
    /\ file = <<>>
    /\ fileState = "absent"
    /\ req = [r \in Handlers |-> IdleReq]
    /\ cycle = [t \in Threads |-> NoCycle]
    /\ script = NoScript
    /\ refresh_lock = 0
    /\ statusRead = NoStatus
    /\ scored_row = PlainRow
    /\ medians = PlainMedians
    /\ result = NoResult
    /\ sector_data = NoSectorData
    /\ universe \in { [NoUniverse EXCEPT !.page = page] : page \in Pages }

\* The two universe providers on their own, called any number of times.
UniverseNext ==
    \/ ResolveApp
    \/ ResolveScript

UniverseSpec == InitUniverse /\ [][UniverseNext]_vars

\* ------------------------------------------------------------------ claims
\* threads that are executing fetch_and_update_data past its first block
ActiveCycles == { t \in Threads : cycle[t].pc \notin {"none", "start"} }

\* C1: at most one refresh cycle is active at any time.
C1_AtMostOneCycle == Cardinality(ActiveCycles) <= 1

\* C2: every cycle that starts ends, and when it ends the running flag is
\* cleared and the status is success or error.
C2_CycleEnds ==
    /\ \A t \in Threads : (cycle[t].pc # "none") ~> (cycle[t].pc = "none")
    /\ [][\A t \in Threads :
            (cycle[t].pc # "none" /\ cycle'[t].pc = "none")
                => /\ ~refresh_status'.is_running
                   /\ refresh_status'.status \in {"success", "error"}]_vars

\* a cycle has ended through the "no MA data" exit or an exception, and
\* none is left
C2_Witness ==
    /\ refresh_status.status = "error"
    /\ ~refresh_status.is_running
    /\ \A t \in Threads : cycle[t].pc = "none"

\* C3: a request that arrives while the running flag is set gets the
\* already-running answer, and starts no thread and changes neither the
\* refresh state nor the snapshot.
C3_RejectedWhileRunning ==
    [][/\ refresh_status.is_running
          => \A r \in Handlers : req[r].pc = "idle" => req'[r].pc = "idle"
       /\ (lastResponse' = "already_running" /\ lastResponse # "already_running")
          => /\ refresh_status.is_running
             /\ UNCHANGED <<refresh_status, file, fileState, cycle, req>>]_vars

C3_Witness == lastResponse = "already_running"


\* ----- snapshot shapes
\* s without its adjacent repetitions
RECURSIVE Collapse(_)
Collapse(s) ==
    IF Len(s) <= 1 THEN s
    ELSE IF s[1] = s[2] THEN Collapse(Tail(s))
    ELSE <<s[1]>> \o Collapse(Tail(s))

SortedBySymbol(data) ==
    \A j \in 1..Len(data), k \in 1..Len(data) :
        j < k => ~StrLess(data[k].Symbol, data[j].Symbol)

UniqueSymbols(data) ==
    \A j \in 1..Len(data), k \in 1..Len(data) :
        j # k => data[j].Symbol # data[k].Symbol

\* handler r leaves the load step
Answers(r) == req[r].pc = "load" /\ req'[r].pc = "idle"

StartsCycle == \E t \in Threads : cycle[t].pc = "none" /\ cycle'[t].pc = "start"

\* C4 (as stated): a non-forced request made while no cycle runs is answered
\* already-current, and starts no cycle, iff the latest last-updated date
\* over the records of the snapshot is today; else it starts a cycle.
C4_MostRecentDecides ==
    [][\A r \in Handlers : Answers(r) =>
          LET data == load_sp500_data
              cur == ~req[r].force /\ data # <<>> /\ MostRecentDate(data) = today
          IN /\ cur <=> (lastResponse' = "current" /\ cycle' = cycle)
             /\ ~cur <=> StartsCycle]_vars

\* C4 (amended): the answer is already-current iff the request is not forced
\* and the first record of the snapshot is dated today; else a cycle starts.
C4_FirstRecordDecides ==
    [][\A r \in Handlers : Answers(r) =>
          LET data == load_sp500_data
              cur == ~req[r].force /\ data # <<>>
                     /\ LastDate(data[1].LastUpdated) = today
          IN /\ cur <=> (lastResponse' = "current" /\ cycle' = cycle)
             /\ ~cur <=> StartsCycle]_vars

C4_Witness == lastResponse = "current"

Downloaded == {"after_ohlcv", "fund", "save", "dump", "finish", "except"}

C9_UniqueSymbols == fileState = "complete" => UniqueSymbols(file)

C11_AtomicSave ==
    [][\/ load_sp500_data' = load_sp500_data
       \/ \E t \in Threads : /\ cycle[t].pc = "dump"
                             /\ load_sp500_data' = cycle[t].all_data]_vars

\* C13: a cycle whose universe came back empty writes nothing and goes
\* straight from the universe step to the failed exit: the status becomes
\* "error", the running flag is cleared and the snapshot file is untouched.
C13_EmptyUniverseFails ==
    [][\A t \in Threads :
         /\ (cycle[t].pc \in {"start", "tickers"} /\ cycle'[t] # cycle[t])
                => /\ file' = file
                   /\ fileState' = fileState
                   /\ cycle'[t].tickers = <<>> /\ cycle'[t].pc # "tickers"
                          => cycle'[t].pc = "after_ohlcv"
         /\ (/\ cycle[t].pc = "after_ohlcv"
             /\ cycle[t].tickers = <<>>
             /\ cycle'[t] # cycle[t])
                => /\ cycle'[t].pc = "none"
                   /\ refresh_status'.status = "error"
                   /\ ~refresh_status'.is_running
                   /\ file' = file
                   /\ fileState' = fileState]_vars

\* a cycle over an empty universe has ended and the earlier snapshot is there
C13_Witness ==
    /\ \A t \in Threads : cycle[t].pc = "none"
    /\ refresh_status = [is_running |-> FALSE, current |-> 0, total |-> 0,
                         status |-> "error"]
    /\ fileState = "complete"
    /\ file # <<>>

\* the points where a cycle thread is in, or about to make, a network call
\* or a sleep: get_sp500_tickers, yf.download and its pause,
\* get_batch_stock_info
NetworkPcs == {"tickers", "ohlcv", "fund"}

\* C12: a status read never waits for the network: it answers with the
\* current refresh_status, and no cycle thread holds the refresh lock while
\* it is in a network call or a sleep.
C12_StatusNeverWaits ==
    /\ []((\E t \in Threads : cycle[t].pc \in NetworkPcs) => refresh_lock = 0)
    /\ [][statusRead' # statusRead => statusRead' = refresh_status]_vars

\* the status was read while a cycle is downloading prices
C12_Witness ==
    /\ \E t \in Threads : cycle[t].pc = "ohlcv"
    /\ statusRead = refresh_status
    /\ statusRead.status = "fetching_ohlcv"
    /\ statusRead.is_running

\* ----- failures of one symbol
\* the symbols of a cycle that have a price row: those with enough history
\* in a batch whose download did not raise
WithPriceRow(c) ==
    SelectSeq(c.tickers, LAMBDA s : s \notin c.failed /\ closes[s] >= MinCloses)

\* the cycle thread t ends with this step
CycleEnds(t) == cycle[t].pc # "none" /\ cycle'[t].pc = "none"

C20_FiftyClosesGiveARow ==
    \A t \in Threads :
       cycle[t].pc = "after_ohlcv"
         => \A s \in Range(cycle[t].tickers) \ cycle[t].failed :
               s \in Range(cycle[t].ma_rows) <=> closes[s] >= MinHistory

\* C20: a refresh cycle of the application keeps a symbol exactly when it
\* has at least 200 closes, and every record it saves has its 200-day
\* average and trend strength; fetch_sp500.py keeps a symbol exactly when it
\* has at least 50 closes, leaves the 200-day average of the record null
\* exactly when there are fewer than 200, and then the trend strength too.
C20_HistoryThresholds ==
    /\ \A t \in Threads :
         LET c == cycle[t]
         IN /\ c.pc \in {"after_ohlcv", "fund", "save", "dump", "finish"}
                  => \A s \in Range(c.tickers) \ c.failed :
                        s \in Range(c.ma_rows) <=> closes[s] >= MinCloses
            /\ c.pc \in {"dump", "finish"}
                  => \A k \in 1..Len(c.all_data) :
                        /\ c.all_data[k].MA200 # None
                        /\ c.all_data[k].TrendStrength # None
    /\ script.pc # "none"
         => /\ \A s \in Range(SubSeq(script.tickers, 1, script.idx)) \ script.failed :
                  s \in Range(SymbolsOf(script.all_data)) <=> closes[s] >= MinHistory
            /\ \A k \in 1..Len(script.all_data) :
                  LET rec == script.all_data[k]
                  IN /\ rec.MA200 = None <=> closes[rec.Symbol] < MinCloses
                     /\ closes[rec.Symbol] < MinCloses => rec.TrendStrength = None

\* fetch_sp500.py saved a record without 200-day average and dropped a
\* listed symbol with fewer than 50 closes
C20_Witness ==
    /\ fileState = "complete"
    /\ script.pc = "none"
    /\ \E s \in Range(listing) : closes[s] < MinHistory
    /\ \E k \in 1..Len(file) :
          /\ file[k].LastUpdated = IsoStamp(today)
          /\ closes[file[k].Symbol] = MinHistory
          /\ file[k].MA200 = None

Scored == result # NoResult

\* C15: for every row and every pair of median tables the decision is the
\* one of the first gate, in the order reject, sell, earnings freeze, reduce,
\* strong buy, buy (small), default hold, whose condition holds.
C15_FirstGateDecides ==
    Scored => result.decision =
                FirstGate(scored_row,
                          FinalPoints(scored_row, medians.pe, medians.vol),
                          result.day)

\* C16: a row whose market cap is below $2B is rejected by the universal
\* filter, whatever its other fields and the medians are.
C16_SmallCapRejected ==
    (Scored /\ Lt(scored_row.MarketCap, Num(2))) => result.decision = "Rejected"

BothKnown(data, sector) ==
    SelectSeq(data, LAMBDA r : r.Sector = sector /\ IsNum(r.PE) /\ IsNum(r.MarketCap))

\* C19: the weighted P/E of every sector summary is sum(P/E x cap) /
\* sum(cap) over the records of the sector having both fields, when there
\* are some and their total cap is positive, and null otherwise.
C19_WeightedPE ==
    sector_data.asked =>
      \A n \in 1..Len(sector_data.sectors) :
         LET subset == BothKnown(file, sector_data.sectors[n].Sector)
             caps == Sum([k \in 1..Len(subset) |-> subset[k].MarketCap[1]])
             products == Sum([k \in 1..Len(subset) |->
                                subset[k].PE[1] * subset[k].MarketCap[1]])
         IN sector_data.sectors[n].WeightedPE =
               IF subset # <<>> /\ caps > 0
               THEN Num(RoundDiv(100 * products, caps))
               ELSE None

\* ----- trend strength
\* the stored trend strength of a record is within 0.1 of
\* (50D MA / 200D MA - 1) x 100 taken over its stored averages (the trend is
\* in hundredths of a percent)
TrendMatches(rec) ==
    LET t == rec.TrendStrength[1]
        d == t * rec.MA200[1] - (rec.MA50[1] - rec.MA200[1]) * 10000
    IN /\ IsNum(rec.TrendStrength)
       /\ d < 10 * rec.MA200[1]
       /\ -d < 10 * rec.MA200[1]

\* C21: every record of a fetcher with a non-zero 200-day average has the
\* trend strength (50D MA / 200D MA - 1) x 100 of its own stored averages,
\* to within 0.1, and the trend strength is absent exactly when the 200-day
\* average is absent or zero.
C21_TrendStrength ==
    LET TrendHolds(rec) ==
            /\ (IsNum(rec.MA200) /\ rec.MA200[1] > 0) => TrendMatches(rec)
            /\ rec.TrendStrength = None <=> rec.MA200 \in {None, Num(0)}
    IN /\ \A k \in 1..Len(script.all_data) : TrendHolds(script.all_data[k])
       /\ \A t \in Threads :
             cycle[t].pc \in {"dump", "finish"}
                => \A k \in 1..Len(cycle[t].all_data) : TrendHolds(cycle[t].all_data[k])

\* ----- the universe
\* the fields of a SymbolMeta, as the keys of the dicts
MetaFields == {"Symbol", "Name", "Sector", "Industry"}

\* the upstream ticker with every "." replaced by "-"
Dashed(ticker) ==
    [k \in 1..Len(ticker) |-> IF ticker[k] = Dot THEN Dash ELSE ticker[k]]

\* C22: every element a get_sp500_tickers returns carries the fields symbol,
\* name, sector and industry; the elements are those of the listing, in its
\* order, and the symbol is the upstream ticker with every "." replaced by
\* "-".
C22_SymbolMeta ==
    (universe.by # "none" /\ universe.tickers # <<>>)
       => /\ Len(universe.tickers) = Len(universe.page)
          /\ \A k \in 1..Len(universe.tickers) :
                LET meta == universe.tickers[k]
                    row == universe.page[k]
                IN /\ DOMAIN meta = MetaFields
                   /\ meta.Symbol = Dashed(row.Symbol)
                   /\ meta.Name = row.Security
                   /\ meta.Sector = row.GICSSector
                   /\ meta.Industry = row.SubIndustry

\* ----- the running flag
\* threads whose fetch_and_update_data was started and has not returned
Executing == { t \in Threads : cycle[t].pc # "none" }

\* C23: while a cycle is executing, from the moment /api/refresh has started
\* it and answered "started" until it has ended, the running flag is set;
\* and no cycle clears the flag while another cycle is still executing.
C23_RunningWhileCycle ==
    /\ [](Executing # {} => refresh_status.is_running)
    /\ [][(refresh_status.is_running /\ ~refresh_status'.is_running)
            => \A t \in Threads : cycle'[t].pc = "none"]_vars

\* ----- the points
\* a numeric input, with 0 for a missing one (None or NaN)
Val(x) == IF IsNum(x) THEN x[1] ELSE 0

Points(cond, n) == IF cond THEN n ELSE 0

\* the four blocks of the score as the specification words them, over the
\* inputs of a row with missing ones taken as 0; the valuation and the
\* volatility points need the value and its sector median
BlockSum(row, pe_medians, vol_medians) ==
    LET price == Val(row.Price)
        ma50 == Val(row.MA50)
        ma200 == Val(row.MA200)
        r5d == Val(row.Ret5D)
        r1m == Val(row.Ret1M)
        r6m == Val(row.Ret6M)
        r1d == Val(row.Ret1D)
        vc1 == Val(row.VolChange1D)
        vc5 == Val(row.VolChange5D)
        median_pe == Get(pe_medians, row.Sector)
        median_vol == Get(vol_medians, row.Sector)
        T == IF price >= ma200
             THEN Points(price > ma50, 8) + Points(ma50 > ma200, 8)
                  + Points(price > ma200, 8) + Points(Val(row.TrendStrength) > 0, 11)
             ELSE 0
        M == Points(r6m > 0, 5) + Points(r1m > 0, 5) + Points(r5d > 0, 5)
             + Points(r6m > r1m /\ r1m > r5d, 10) - Points(r5d < 0 /\ r1m > 0, 5)
        V == Points(vc5 >= 20, 5) + Points(vc1 >= 50, 10)
             + Points(r1d > 0 /\ vc1 > 0, 5) - Points(r1d < 0 /\ vc1 >= 100, 10)
        R == Points(Val(row.MarketCap) > 10, 5)
             + (IF IsNum(row.PE) /\ IsNum(median_pe)
                THEN IF row.PE[1] < median_pe[1] THEN 5
                     ELSE Points(row.PE[1] > median_pe[1] /\ (r1m > 0 \/ r6m > 0), 3)
                ELSE 0)
             + Points(IsNum(row.Vol6M) /\ IsNum(median_vol)
                      /\ Val(row.Vol6M) < Val(median_vol), 7)
    IN T + M + V + R

\* C24: whenever scoring raises no exception the score is max(0, T + M + V
\* + R), the sum of the trend, momentum, volume and risk blocks over the
\* inputs of the row with missing ones taken as 0; a null input adds no
\* points.
C24_ScoreIsBlockSum ==
    (Scored /\ result.decision # "ERROR")
       => LET sum == BlockSum(scored_row, medians.pe, medians.vol)
          IN result.points = IF sum > 0 THEN sum ELSE 0

\* ----- the buy decisions
\* the price of a row is above both of its moving averages
AboveBothAverages(row) ==
    /\ Val(row.Price) > Val(row.MA50)
    /\ Val(row.Price) > Val(row.MA200)

\* the row has no earnings date, or one more than 7 days after `day`
NoEarningsSoon(row, day) ==
    \/ row.EarningsDate = None
    \/ row.EarningsDate[1] - day > 7

\* C25: a "Strong Buy" has a score of at least 80, a price above both
\* averages, a 5-day volume ratio of at least 1.2, a positive 6-month return
\* and no earnings date within 7 days; a "Buy (Small)" has a score of 70 to
\* 79, a price above both averages, a positive 6-month return and no
\* earnings date within 7 days; neither goes to a row with a market cap
\* below 2 billion, a price below 10, a negative trend strength, or 5-day
\* and 1-month returns both negative.
C25_BuysAreEarned ==
    Scored =>
      LET row == scored_row
      IN /\ result.decision = "Strong Buy"
               => /\ result.points >= 80
                  /\ AboveBothAverages(row)
                  /\ Val(row.VolChange5D) >= 20
                  /\ Val(row.Ret6M) > 0
                  /\ NoEarningsSoon(row, result.day)
         /\ result.decision = "Buy (Small)"
               => /\ result.points >= 70 /\ result.points <= 79
                  /\ AboveBothAverages(row)
                  /\ Val(row.Ret6M) > 0
                  /\ NoEarningsSoon(row, result.day)
         /\ result.decision \in {"Strong Buy", "Buy (Small)"}
               => /\ ~(IsNum(row.MarketCap) /\ row.MarketCap[1] < 2)
                  /\ ~(Val(row.Price) < 10)
                  /\ ~(Val(row.TrendStrength) < 0)
                  /\ ~(Val(row.Ret5D) < 0 /\ Val(row.Ret1M) < 0)

\* a row with its earnings 8 days ahead was scored a strong buy
C25_Witness ==
    /\ result.decision = "Strong Buy"
    /\ result.day = 0
    /\ scored_row.EarningsDate = Num(8)
    /\ scored_row.VolChange5D = Num(20)

\* ----- the phases and the progress counters
Terminal == {"idle", "success", "error"}

\* the moves of the phase that go forwards
Forwards(from, to) ==
    \/ from \in Terminal /\ to = "starting"
    \/ from = "starting" /\ to \in {"fetching_ohlcv", "error"}
    \/ from = "fetching_ohlcv" /\ to \in {"fetching_fundamentals", "error"}
    \/ from = "fetching_fundamentals" /\ to \in {"success", "error"}

\* C26: the phase of the refresh state never moves backwards: from idle,
\* success or error it goes to starting only, and from there through
\* fetching_ohlcv and fetching_fundamentals to success, with error reachable
\* from every phase of a cycle, whatever the interleaving of requests and
\* threads.
C26_PhasesGoForwards ==
    [][refresh_status'.status # refresh_status.status
          => Forwards(refresh_status.status, refresh_status'.status)]_vars

\* C27: the progress counters always satisfy 0 <= current <= total, and
\* current = total when a cycle ends in success, whatever the interleaving
\* of requests and threads.
C27_ProgressInRange ==
    /\ [](/\ 0 <= refresh_status.current
          /\ refresh_status.current <= refresh_status.total)
    /\ [][\A t \in Threads :
            (CycleEnds(t) /\ cycle[t].pc = "finish")
               => refresh_status'.current = refresh_status'.total]_vars

\* ----- the range of the score
\* the most the four blocks can add up to: 35 for the trend, 25 for the
\* momentum, 20 for the volume, 17 for risk and valuation
MaxScore == (8 + 8 + 8 + 11) + (5 + 5 + 5 + 10) + (5 + 10 + 5) + (5 + 5 + 7)

====
